---------------------------- MODULE Spec2Model ----------------------------
(***************************************************************************)
(* A model of the axum request-handler layer of src/src/main.rs: the       *)
(* router of main, the seven POST handlers, the JSON body extraction that  *)
(* precedes each of them, and the conversion of an SDK Instruction into    *)
(* its JSON form.                                                          *)
(*                                                                         *)
(* Text is a sequence of one-character strings and binary data a sequence  *)
(* of bytes (0..255).  The base58 and base64 codecs are computed digit by  *)
(* digit as the bs58 and base64 crates compute them.  Two SDK functions    *)
(* are hash-based and are modelled through their contract only: the        *)
(* ed25519 signature (a deterministic 64-byte tag that verifies for        *)
(* exactly the key and message that produced it) and the associated token  *)
(* address (a deterministic 32-byte function of owner, token program and   *)
(* mint).                                                                  *)
(***************************************************************************)
EXTENDS Integers, Sequences, FiniteSets, TLC

-----------------------------------------------------------------------------
(* Sizes fixed by the SDK types the handlers use.                          *)

\* size_of::<Pubkey>(), checked by Pubkey::from_str
PUBKEY_BYTES == 32

\* longest base58 text Pubkey::from_str looks at
MAX_BASE58_LEN == 44

\* length Signature::try_from requires
SIGNATURE_BYTES == 64

\* length Keypair::try_from requires: secret half, then public half
KEYPAIR_LENGTH == 64

-----------------------------------------------------------------------------
(* Bounds of the model.                                                    *)

\* keypairs the operating system's random source can produce (seeds 1..NumSeeds)
NumSeeds == 2

\* times one request is handled: the first run and the runs that repeat it
MaxRuns == 2

-----------------------------------------------------------------------------
(* Alphabets.                                                              *)

BASE58 ==
    << "1", "2", "3", "4", "5", "6", "7", "8", "9", "A", "B", "C", "D", "E", "F", "G",
       "H", "J", "K", "L", "M", "N", "P", "Q", "R", "S", "T", "U", "V", "W", "X", "Y",
       "Z", "a", "b", "c", "d", "e", "f", "g", "h", "i", "j", "k", "m", "n", "o", "p",
       "q", "r", "s", "t", "u", "v", "w", "x", "y", "z" >>

BASE64 ==
    << "A", "B", "C", "D", "E", "F", "G", "H", "I", "J", "K", "L", "M", "N", "O", "P",
       "Q", "R", "S", "T", "U", "V", "W", "X", "Y", "Z", "a", "b", "c", "d", "e", "f",
       "g", "h", "i", "j", "k", "l", "m", "n", "o", "p", "q", "r", "s", "t", "u", "v",
       "w", "x", "y", "z", "0", "1", "2", "3", "4", "5", "6", "7", "8", "9", "+", "/" >>

\* the ASCII digits (code 48 first), capitals (65 first) and small letters (97 first)
DIGITS == << "0", "1", "2", "3", "4", "5", "6", "7", "8", "9" >>

UPPER ==
    << "A", "B", "C", "D", "E", "F", "G", "H", "I", "J", "K", "L", "M",
       "N", "O", "P", "Q", "R", "S", "T", "U", "V", "W", "X", "Y", "Z" >>

LOWER ==
    << "a", "b", "c", "d", "e", "f", "g", "h", "i", "j", "k", "l", "m",
       "n", "o", "p", "q", "r", "s", "t", "u", "v", "w", "x", "y", "z" >>

Range(s) == { s[i] : i \in 1..Len(s) }

\* position of character c in alphabet a, 0 when it is not in it
IndexIn(a, c) ==
    IF c \in Range(a) THEN CHOOSE i \in 1..Len(a) : a[i] = c ELSE 0

Reverse(s) == [ i \in 1..Len(s) |-> s[Len(s) + 1 - i] ]

Repeat(x, n) == [ i \in 1..n |-> x ]

\* number of leading elements of s equal to x
RECURSIVE LeadingCount(_, _)
LeadingCount(s, x) ==
    IF s = << >> \/ Head(s) # x THEN 0 ELSE 1 + LeadingCount(Tail(s), x)

\* the UTF-8 code of an ASCII letter or digit
Utf8(c) ==
    IF c \in Range(DIGITS) THEN IndexIn(DIGITS, c) + 47
    ELSE IF c \in Range(UPPER) THEN IndexIn(UPPER, c) + 64
    ELSE IndexIn(LOWER, c) + 96

\* String::as_bytes for text of ASCII letters and digits
as_bytes(s) == [ i \in 1..Len(s) |-> Utf8(s[i]) ]

-----------------------------------------------------------------------------
(* Radix conversion as bs58 does it: a little-endian digit vector is       *)
(* multiplied by the source radix and the next source digit is carried in. *)
(* Both loops run over their index range in order.  A range is walked by   *)
(* halves, the left half finished before the right one starts (the test on *)
(* its result, which never fails, sees to that: a carry is never negative  *)
(* and a source digit adds at most two digits), so that the evaluation     *)
(* nests only logarithmically deep.                                        *)

RECURSIVE CarryDigits(_, _)
CarryDigits(c, base) ==
    IF c = 0 THEN << >> ELSE << c % base >> \o CarryDigits(c \div base, base)

\* digits lo..hi of d, each times mul plus the carry so far
RECURSIVE MulAddRange(_, _, _, _, _, _)
MulAddRange(st, d, lo, hi, mul, base) ==
    IF lo > hi THEN st
    ELSE IF lo = hi
    THEN LET v == d[lo] * mul + st.c
         IN  [ out |-> Append(st.out, v % base), c |-> v \div base ]
    ELSE LET mid  == (lo + hi) \div 2
             left == MulAddRange(st, d, lo, mid, mul, base)
         IN  IF left.c < 0 THEN left ELSE MulAddRange(left, d, mid + 1, hi, mul, base)

\* d * mul + c, the last carry spilling into new digits
MulAdd(d, c, mul, base) ==
    LET st == MulAddRange([ out |-> << >>, c |-> c ], d, 1, Len(d), mul, base)
    IN  st.out \o CarryDigits(st.c, base)

\* source digits lo..hi carried into acc, one after the other
RECURSIVE RadixRange(_, _, _, _, _, _)
RadixRange(acc, src, lo, hi, mul, base) ==
    IF lo > hi THEN acc
    ELSE IF lo = hi THEN MulAdd(acc, src[lo], mul, base)
    ELSE LET mid  == (lo + hi) \div 2
             left == RadixRange(acc, src, lo, mid, mul, base)
         IN  IF Len(left) > 2 * mid THEN left ELSE RadixRange(left, src, mid + 1, hi, mul, base)

\* big-endian digits src of radix mul -> little-endian digits of radix base
Radix(src, mul, base) == RadixRange(<< >>, src, 1, Len(src), mul, base)

\* bs58::encode(bytes).into_string()
Base58Encode(bytes) ==
    LET digits == Radix(bytes, 256, 58)
        ones   == LeadingCount(bytes, 0)
        all    == Repeat(0, ones) \o Reverse(digits)
    IN  [ i \in 1..Len(all) |-> BASE58[all[i] + 1] ]

\* bs58::decode(text).into_vec(): ok is FALSE on a character outside the alphabet
Base58Decode(text) ==
    LET vals == [ i \in 1..Len(text) |-> IndexIn(BASE58, text[i]) - 1 ]
    IN  IF \E i \in 1..Len(text) : vals[i] < 0
        THEN [ ok |-> FALSE, bytes |-> << >> ]
        ELSE [ ok    |-> TRUE,
               bytes |-> Repeat(0, LeadingCount(text, "1"))
                         \o Reverse(Radix(vals, 58, 256)) ]

-----------------------------------------------------------------------------
(* Standard base64 with padding (general_purpose::STANDARD).               *)

RECURSIVE Base64Encode(_)
Base64Encode(b) ==
    IF Len(b) = 0 THEN << >>
    ELSE IF Len(b) = 1 THEN
        << BASE64[(b[1] \div 4) + 1], BASE64[((b[1] % 4) * 16) + 1], "=", "=" >>
    ELSE IF Len(b) = 2 THEN
        << BASE64[(b[1] \div 4) + 1],
           BASE64[((b[1] % 4) * 16 + (b[2] \div 16)) + 1],
           BASE64[((b[2] % 16) * 4) + 1], "=" >>
    ELSE
        << BASE64[(b[1] \div 4) + 1],
           BASE64[((b[1] % 4) * 16 + (b[2] \div 16)) + 1],
           BASE64[((b[2] % 16) * 4 + (b[3] \div 64)) + 1],
           BASE64[(b[3] % 64) + 1] >>
        \o Base64Encode(SubSeq(b, 4, Len(b)))

\* the bytes of sextets v (values 0..63); a last group of 2 or 3 sextets
\* gives 1 or 2 bytes
RECURSIVE SextetsToBytes(_)
SextetsToBytes(v) ==
    IF Len(v) < 2 THEN << >>
    ELSE IF Len(v) = 2 THEN << v[1] * 4 + (v[2] \div 16) >>
    ELSE IF Len(v) = 3 THEN
        << v[1] * 4 + (v[2] \div 16), (v[2] % 16) * 16 + (v[3] \div 4) >>
    ELSE
        << v[1] * 4 + (v[2] \div 16),
           (v[2] % 16) * 16 + (v[3] \div 4),
           (v[3] % 4) * 64 + v[4] >>
        \o SextetsToBytes(SubSeq(v, 5, Len(v)))

\* general_purpose::STANDARD.decode(text): padding is required and canonical,
\* every other character is of the alphabet, and the unused bits of the last
\* symbol are zero
Base64Decode(text) ==
    LET pad  == LeadingCount(Reverse(text), "=")
        body == SubSeq(text, 1, Len(text) - pad)
        vals == [ i \in 1..Len(body) |-> IndexIn(BASE64, body[i]) - 1 ]
        rem  == Len(body) % 4
        good == /\ Len(text) % 4 = 0
                /\ pad <= 2
                /\ \A i \in 1..Len(body) : vals[i] >= 0
                /\ rem # 1
                /\ rem = 2 => vals[Len(body)] % 16 = 0
                /\ rem = 3 => vals[Len(body)] % 4 = 0
    IN  IF good
        THEN [ ok |-> TRUE, bytes |-> SextetsToBytes(vals) ]
        ELSE [ ok |-> FALSE, bytes |-> << >> ]

-----------------------------------------------------------------------------
(* solana_sdk::pubkey::Pubkey                                              *)

\* Pubkey::from_str: text longer than MAX_BASE58_LEN or of another decoded
\* length is WrongSize, text that is not base58 is Invalid
PubkeyFromStr(text) ==
    IF Len(text) > MAX_BASE58_LEN
    THEN [ ok |-> FALSE, err |-> "WrongSize", key |-> << >> ]
    ELSE LET d == Base58Decode(text)
         IN  IF ~d.ok
             THEN [ ok |-> FALSE, err |-> "Invalid", key |-> << >> ]
             ELSE IF Len(d.bytes) # PUBKEY_BYTES
             THEN [ ok |-> FALSE, err |-> "WrongSize", key |-> << >> ]
             ELSE [ ok |-> TRUE, err |-> "", key |-> d.bytes ]

\* Pubkey::to_string
PubkeyToString(key) == Base58Encode(key)

\* the text of a well-known program or sysvar identifier, as its bytes
IdBytes(text) == Base58Decode(text).bytes

\* spl_token::ID
SPL_TOKEN_ID ==
    IdBytes(<< "T", "o", "k", "e", "n", "k", "e", "g", "Q", "f", "e", "Z", "y", "i", "N", "w",
               "A", "J", "b", "N", "b", "G", "K", "P", "F", "X", "C", "W", "u", "B", "v", "f",
               "9", "S", "s", "6", "2", "3", "V", "Q", "5", "D", "A" >>)

\* solana_sdk::sysvar::rent::id(), the second account of initialize_mint
SYSVAR_RENT_ID ==
    IdBytes(<< "S", "y", "s", "v", "a", "r", "R", "e", "n", "t", "1", "1", "1", "1", "1", "1",
               "1", "1", "1", "1", "1", "1", "1", "1", "1", "1", "1", "1", "1", "1", "1", "1",
               "1", "1", "1", "1", "1", "1", "1", "1", "1", "1", "1" >>)

\* solana_sdk::system_program::id(): thirty-two zero bytes
SYSTEM_PROGRAM_ID == Repeat(0, PUBKEY_BYTES)

-----------------------------------------------------------------------------
(* solana_sdk::signer::keypair::Keypair and solana_sdk::signature          *)

\* the 32-byte secret the random source yields on draw i
Seed(i) == [ j \in 1..PUBKEY_BYTES |-> (37 * i + 11 * j) % 256 ]

\* the public half that belongs to a secret half (a stand-in for the ed25519
\* scalar multiplication: a fixed function of the secret)
PublicKeyOf(secret) ==
    [ j \in 1..PUBKEY_BYTES |-> (5 * secret[PUBKEY_BYTES + 1 - j] + 7 * j + 1) % 256 ]

\* Keypair::new() on draw i of the random source
KeypairNew(i) == [ secret |-> Seed(i), public |-> PublicKeyOf(Seed(i)) ]

\* Keypair::to_base58_string: base58 of the secret half followed by the public half
KeypairToBase58String(kp) == Base58Encode(kp.secret \o kp.public)

\* Keypair::try_from(bytes): 64 bytes whose public half belongs to the secret half
KeypairTryFrom(bytes) ==
    IF /\ Len(bytes) = KEYPAIR_LENGTH
       /\ SubSeq(bytes, PUBKEY_BYTES + 1, KEYPAIR_LENGTH)
            = PublicKeyOf(SubSeq(bytes, 1, PUBKEY_BYTES))
    THEN [ ok |-> TRUE,
           kp |-> [ secret |-> SubSeq(bytes, 1, PUBKEY_BYTES),
                    public |-> SubSeq(bytes, PUBKEY_BYTES + 1, KEYPAIR_LENGTH) ] ]
    ELSE [ ok |-> FALSE, kp |-> [ secret |-> << >>, public |-> << >> ] ]

\* Keypair::sign_message: a deterministic 64-byte tag; its first half binds
\* the key, its second half the message (of up to 31 bytes) under the key
Ed25519Sign(kp, msg) ==
    [ j \in 1..PUBKEY_BYTES |-> (kp.public[j] + 3 * j) % 256 ]
    \o
    [ j \in 1..PUBKEY_BYTES |->
        ( kp.secret[j]
          + (IF j <= Len(msg) THEN msg[j] ELSE IF j = Len(msg) + 1 THEN 128 ELSE 0)
        ) % 256 ]

\* Signature::try_from(bytes)
SignatureTryFrom(bytes) ==
    [ ok |-> Len(bytes) = SIGNATURE_BYTES, sig |-> bytes ]

\* Signature::verify(pubkey, message): the tag is the one the key's own
\* secret gives for this message; a key no keypair owns verifies nothing
Ed25519Verify(sig, pubkey, msg) ==
    \E i \in 1..NumSeeds :
        /\ KeypairNew(i).public = pubkey
        /\ sig = Ed25519Sign(KeypairNew(i), msg)

-----------------------------------------------------------------------------
(* Instructions and their builders.                                        *)

\* AccountMeta::new (writable) and AccountMeta::new_readonly
AccountMetaNew(key, signer) ==
    [ pubkey |-> key, is_signer |-> signer, is_writable |-> TRUE ]

AccountMetaReadonly(key, signer) ==
    [ pubkey |-> key, is_signer |-> signer, is_writable |-> FALSE ]

\* u64::to_le_bytes for amounts below 2^31
U64LE(n) == [ j \in 1..8 |-> IF j <= 4 THEN (n \div (256 ^ (j - 1))) % 256 ELSE 0 ]

NoIns == [ program_id |-> << >>, accounts |-> << >>, data |-> << >> ]

\* spl_token::check_program_account
CheckProgramAccount(program) == program = SPL_TOKEN_ID

\* spl_token::instruction::initialize_mint with no freeze authority
initialize_mint(program, mint, authority, decimals) ==
    IF ~CheckProgramAccount(program)
    THEN [ ok |-> FALSE, ins |-> NoIns ]
    ELSE [ ok  |-> TRUE,
           ins |-> [ program_id |-> program,
                     accounts   |-> << AccountMetaNew(mint, FALSE),
                                       AccountMetaReadonly(SYSVAR_RENT_ID, FALSE) >>,
                     data       |-> << 0, decimals >> \o authority \o << 0 >> ] ]

\* spl_token::instruction::mint_to with no multisig signers
mint_to(program, mint, account, owner, amount) ==
    IF ~CheckProgramAccount(program)
    THEN [ ok |-> FALSE, ins |-> NoIns ]
    ELSE [ ok  |-> TRUE,
           ins |-> [ program_id |-> program,
                     accounts   |-> << AccountMetaNew(mint, FALSE),
                                       AccountMetaNew(account, FALSE),
                                       AccountMetaReadonly(owner, TRUE) >>,
                     data       |-> << 7 >> \o U64LE(amount) ] ]

\* spl_token::instruction::transfer with no multisig signers
token_transfer(program, source, destination, authority, amount) ==
    IF ~CheckProgramAccount(program)
    THEN [ ok |-> FALSE, ins |-> NoIns ]
    ELSE [ ok  |-> TRUE,
           ins |-> [ program_id |-> program,
                     accounts   |-> << AccountMetaNew(source, FALSE),
                                       AccountMetaNew(destination, FALSE),
                                       AccountMetaReadonly(authority, TRUE) >>,
                     data       |-> << 3 >> \o U64LE(amount) ] ]

\* system_instruction::transfer: bincode of SystemInstruction::Transfer
system_transfer(from, to, lamports) ==
    [ program_id |-> SYSTEM_PROGRAM_ID,
      accounts   |-> << AccountMetaNew(from, TRUE), AccountMetaNew(to, FALSE) >>,
      data       |-> << 2, 0, 0, 0 >> \o U64LE(lamports) ]

\* get_associated_token_address(owner, mint): a stand-in for the program
\* derived address of the seeds owner, token program, mint
get_associated_token_address(owner, mint) ==
    [ j \in 1..PUBKEY_BYTES |->
        (owner[j] + 3 * mint[j] + 5 * SPL_TOKEN_ID[j] + j) % 256 ]

-----------------------------------------------------------------------------
(* The JSON form of an instruction.                                        *)

\* impl From<AccountMeta> for SerializableAccountMeta
SerializableAccountMetaFrom(meta) ==
    [ pubkey      |-> PubkeyToString(meta.pubkey),
      is_signer   |-> meta.is_signer,
      is_writable |-> meta.is_writable ]

\* an account list without the later occurrences of a key already in it
RECURSIVE DedupAccounts(_)
DedupAccounts(a) ==
    IF a = << >> THEN << >>
    ELSE LET init == DedupAccounts(SubSeq(a, 1, Len(a) - 1))
             last == a[Len(a)]
         IN  IF \E i \in 1..Len(init) : init[i].pubkey = last.pubkey
             THEN init
             ELSE Append(init, last)

\* the conversion with the accounts deduplicated
SerializableInstructionFrom_dedup(instruction) ==
    LET accounts == DedupAccounts(instruction.accounts)
    IN  [ program_id       |-> PubkeyToString(instruction.program_id),
          accounts         |-> [ i \in 1..Len(accounts) |->
                                   SerializableAccountMetaFrom(accounts[i]) ],
          instruction_data |-> Base64Encode(instruction.data) ]

\* impl From<Instruction> for SerializableInstruction
SerializableInstructionFrom(instruction) ==
    [ program_id       |-> PubkeyToString(instruction.program_id),
      accounts         |-> [ i \in 1..Len(instruction.accounts) |->
                               SerializableAccountMetaFrom(instruction.accounts[i]) ],
      instruction_data |-> Base64Encode(instruction.data) ]

-----------------------------------------------------------------------------
(* JSON bodies and the Json<T> extractor.                                  *)

JString(s) == [ t |-> "string", s |-> s, n |-> 0 ]
JNumber(n) == [ t |-> "number", s |-> << >>, n |-> n ]
JAbsent    == [ t |-> "absent", s |-> << >>, n |-> 0 ]

\* a body is a function from the names of its fields to JSON values
Field(body, name) == IF name \in DOMAIN body THEN body[name] ELSE JAbsent

\* serde's Deserialize for the field types of the request structs; u64 is
\* every number from 0 that the model can write
Deserializes(v, type) ==
    CASE type = "String" -> v.t = "string"
      [] type = "u8"     -> v.t = "number" /\ v.n >= 0 /\ v.n <= 255
      [] type = "u64"    -> v.t = "number" /\ v.n >= 0

\* #[derive(Deserialize)] for a struct of the given fields: every field is
\* present and of its type
DeserializeOk(body, fields) ==
    \A i \in 1..Len(fields) : Deserializes(Field(body, fields[i][1]), fields[i][2])

CreateTokenRequestFields ==
    << << "mintAuthority", "String" >>, << "mint", "String" >>, << "decimals", "u8" >> >>

CreateTokenRequest(body) ==
    [ mint_authority |-> Field(body, "mintAuthority").s,
      mint           |-> Field(body, "mint").s,
      decimals       |-> Field(body, "decimals").n ]

MintTokenRequestFields ==
    << << "mint", "String" >>, << "destination", "String" >>,
       << "authority", "String" >>, << "amount", "u64" >> >>

MintTokenRequest(body) ==
    [ mint        |-> Field(body, "mint").s,
      destination |-> Field(body, "destination").s,
      authority   |-> Field(body, "authority").s,
      amount      |-> Field(body, "amount").n ]

SignMessageRequestFields ==
    << << "message", "String" >>, << "secret", "String" >> >>

SignMessageRequest(body) ==
    [ message |-> Field(body, "message").s, secret |-> Field(body, "secret").s ]

VerifyMessageRequestFields ==
    << << "message", "String" >>, << "signature", "String" >>, << "pubkey", "String" >> >>

VerifyMessageRequest(body) ==
    [ message   |-> Field(body, "message").s,
      signature |-> Field(body, "signature").s,
      pubkey    |-> Field(body, "pubkey").s ]

SendSolRequestFields ==
    << << "from", "String" >>, << "to", "String" >>, << "lamports", "u64" >> >>

SendSolRequest(body) ==
    [ from     |-> Field(body, "from").s,
      to       |-> Field(body, "to").s,
      lamports |-> Field(body, "lamports").n ]

SendTokenRequestFields ==
    << << "destination", "String" >>, << "mint", "String" >>,
       << "owner", "String" >>, << "amount", "u64" >> >>

SendTokenRequest(body) ==
    [ destination |-> Field(body, "destination").s,
      mint        |-> Field(body, "mint").s,
      owner       |-> Field(body, "owner").s,
      amount      |-> Field(body, "amount").n ]

-----------------------------------------------------------------------------
(* Responses.                                                              *)

NoData == [ none |-> TRUE ]

NoResp == [ status |-> 0, ctype |-> "none", success |-> FALSE, error |-> "", data |-> NoData ]

\* Ok(Json(SuccessResponse { success: true, data }))
SuccessResponse(data) ==
    [ status |-> 200, ctype |-> "json", success |-> TRUE, error |-> "", data |-> data ]

\* Err((StatusCode::BAD_REQUEST, Json(ErrorResponse::new(msg))))
ErrorResponse(msg) ==
    [ status |-> 400, ctype |-> "json", success |-> FALSE, error |-> msg, data |-> NoData ]

\* what axum answers when Json<T> cannot extract the body: 422 and a line of
\* plain text, written by the framework before the handler is entered
JsonRejection ==
    [ status |-> 422, ctype |-> "text", success |-> FALSE, error |-> "", data |-> NoData ]

\* what the router answers for a path it has no route for, and for a route
\* asked with a method it is not registered for: a status and an empty body
NotFoundResponse ==
    [ status |-> 404, ctype |-> "none", success |-> FALSE, error |-> "", data |-> NoData ]

MethodNotAllowedResponse ==
    [ status |-> 405, ctype |-> "none", success |-> FALSE, error |-> "", data |-> NoData ]

\* a handler's outcome: the response, the checks and SDK calls it made in
\* order, and the instruction it had the SDK build
Out(r, c, i) == [ resp |-> r, calls |-> c, ins |-> i ]

-----------------------------------------------------------------------------
(* The handlers.                                                           *)

\* generate_keypair, on draw i of the random source
generate_keypair(i) ==
    LET keypair == KeypairNew(i)
    IN  Out(SuccessResponse([ pubkey |-> PubkeyToString(keypair.public),
                              secret |-> KeypairToBase58String(keypair) ]),
            << "Keypair::new" >>, NoIns)

create_token(r) ==
    LET authority == PubkeyFromStr(r.mint_authority)
        mint      == PubkeyFromStr(r.mint)
        built     == initialize_mint(SPL_TOKEN_ID, mint.key, authority.key, r.decimals)
        c1 == << "from_str(mint_authority)" >>
        c2 == c1 \o << "from_str(mint)" >>
        c3 == c2 \o << "initialize_mint" >>
    IN  IF ~authority.ok
        THEN Out(ErrorResponse("Invalid mint authority public key"), c1, NoIns)
        ELSE IF ~mint.ok
        THEN Out(ErrorResponse("Invalid mint public key"), c2, NoIns)
        ELSE IF built.ok
        THEN Out(SuccessResponse(SerializableInstructionFrom(built.ins)), c3, built.ins)
        ELSE Out(ErrorResponse("Failed to create instruction: IncorrectProgramId"), c3, NoIns)

mint_token(r) ==
    LET mint        == PubkeyFromStr(r.mint)
        destination == PubkeyFromStr(r.destination)
        authority   == PubkeyFromStr(r.authority)
        built == mint_to(SPL_TOKEN_ID, mint.key, destination.key, authority.key, r.amount)
        c1 == << "from_str(mint)" >>
        c2 == c1 \o << "from_str(destination)" >>
        c3 == c2 \o << "from_str(authority)" >>
        c4 == c3 \o << "mint_to" >>
    IN  IF ~mint.ok
        THEN Out(ErrorResponse("Invalid mint public key"), c1, NoIns)
        ELSE IF ~destination.ok
        THEN Out(ErrorResponse("Invalid destination public key"), c2, NoIns)
        ELSE IF ~authority.ok
        THEN Out(ErrorResponse("Invalid authority public key"), c3, NoIns)
        ELSE IF built.ok
        THEN Out(SuccessResponse(SerializableInstructionFrom(built.ins)), c4, built.ins)
        ELSE Out(ErrorResponse("Failed to create instruction: IncorrectProgramId"), c4, NoIns)

\* sign_message decoding the secret before it looks for empty fields
sign_message_decode_first(r) ==
    LET decoded == Base58Decode(r.secret)
        keypair == KeypairTryFrom(decoded.bytes)
        signature == Ed25519Sign(keypair.kp, as_bytes(r.message))
        c1 == << "bs58::decode" >>
        c2 == c1 \o << "Keypair::try_from" >>
        c3 == c2 \o << "is_empty" >>
        c4 == c3 \o << "sign_message" >>
    IN  IF ~decoded.ok
        THEN Out(ErrorResponse("Invalid secret key format"), c1, NoIns)
        ELSE IF ~keypair.ok
        THEN Out(ErrorResponse("Invalid secret key"), c2, NoIns)
        ELSE IF r.message = << >> \/ r.secret = << >>
        THEN Out(ErrorResponse("Missing required fields"), c3, NoIns)
        ELSE Out(SuccessResponse([ signature  |-> Base64Encode(signature),
                                   public_key |-> PubkeyToString(keypair.kp.public),
                                   message    |-> r.message ]),
                 c4, NoIns)

sign_message(r) ==
    LET decoded == Base58Decode(r.secret)
        keypair == KeypairTryFrom(decoded.bytes)
        signature == Ed25519Sign(keypair.kp, as_bytes(r.message))
        c1 == << "is_empty" >>
        c2 == c1 \o << "bs58::decode" >>
        c3 == c2 \o << "Keypair::try_from" >>
        c4 == c3 \o << "sign_message" >>
    IN  IF r.message = << >> \/ r.secret = << >>
        THEN Out(ErrorResponse("Missing required fields"), c1, NoIns)
        ELSE IF ~decoded.ok
        THEN Out(ErrorResponse("Invalid secret key format"), c2, NoIns)
        ELSE IF ~keypair.ok
        THEN Out(ErrorResponse("Invalid secret key"), c3, NoIns)
        ELSE Out(SuccessResponse([ signature  |-> Base64Encode(signature),
                                   public_key |-> PubkeyToString(keypair.kp.public),
                                   message    |-> r.message ]),
                 c4, NoIns)

\* verify_message answering a signature that does not match with an error
verify_message_error_on_mismatch(r) ==
    LET pubkey    == PubkeyFromStr(r.pubkey)
        decoded   == Base64Decode(r.signature)
        signature == SignatureTryFrom(decoded.bytes)
        valid     == Ed25519Verify(signature.sig, pubkey.key, as_bytes(r.message))
        c1 == << "from_str(pubkey)" >>
        c2 == c1 \o << "base64::decode" >>
        c3 == c2 \o << "Signature::try_from" >>
        c4 == c3 \o << "verify" >>
    IN  IF ~pubkey.ok
        THEN Out(ErrorResponse("Invalid public key"), c1, NoIns)
        ELSE IF ~decoded.ok
        THEN Out(ErrorResponse("Invalid signature format; must be base64"), c2, NoIns)
        ELSE IF ~signature.ok
        THEN Out(ErrorResponse("Invalid signature length"), c3, NoIns)
        ELSE IF ~valid
        THEN Out(ErrorResponse("Signature verification failed"), c4, NoIns)
        ELSE Out(SuccessResponse([ valid   |-> valid,
                                   message |-> r.message,
                                   pubkey  |-> r.pubkey ]),
                 c4, NoIns)

\* verify_message handing the key and the message to verify in each other's place
verify_message_swapped_arguments(r) ==
    LET pubkey    == PubkeyFromStr(r.pubkey)
        decoded   == Base64Decode(r.signature)
        signature == SignatureTryFrom(decoded.bytes)
        valid     == Ed25519Verify(signature.sig, as_bytes(r.message), pubkey.key)
        c1 == << "from_str(pubkey)" >>
        c2 == c1 \o << "base64::decode" >>
        c3 == c2 \o << "Signature::try_from" >>
        c4 == c3 \o << "verify" >>
    IN  IF ~pubkey.ok
        THEN Out(ErrorResponse("Invalid public key"), c1, NoIns)
        ELSE IF ~decoded.ok
        THEN Out(ErrorResponse("Invalid signature format; must be base64"), c2, NoIns)
        ELSE IF ~signature.ok
        THEN Out(ErrorResponse("Invalid signature length"), c3, NoIns)
        ELSE Out(SuccessResponse([ valid   |-> valid,
                                   message |-> r.message,
                                   pubkey  |-> r.pubkey ]),
                 c4, NoIns)

verify_message(r) ==
    LET pubkey    == PubkeyFromStr(r.pubkey)
        decoded   == Base64Decode(r.signature)
        signature == SignatureTryFrom(decoded.bytes)
        valid     == Ed25519Verify(signature.sig, pubkey.key, as_bytes(r.message))
        c1 == << "from_str(pubkey)" >>
        c2 == c1 \o << "base64::decode" >>
        c3 == c2 \o << "Signature::try_from" >>
        c4 == c3 \o << "verify" >>
    IN  IF ~pubkey.ok
        THEN Out(ErrorResponse("Invalid public key"), c1, NoIns)
        ELSE IF ~decoded.ok
        THEN Out(ErrorResponse("Invalid signature format; must be base64"), c2, NoIns)
        ELSE IF ~signature.ok
        THEN Out(ErrorResponse("Invalid signature length"), c3, NoIns)
        ELSE Out(SuccessResponse([ valid   |-> valid,
                                   message |-> r.message,
                                   pubkey  |-> r.pubkey ]),
                 c4, NoIns)

\* send_sol without its zero-amount check
send_sol_no_zero_check(r) ==
    LET from == PubkeyFromStr(r.from)
        to   == PubkeyFromStr(r.to)
        instruction == system_transfer(from.key, to.key, r.lamports)
        c1 == << "from_str(from)" >>
        c2 == c1 \o << "from_str(to)" >>
        c3 == c2 \o << "from == to" >>
        c5 == c3 \o << "system_instruction::transfer" >>
    IN  IF ~from.ok
        THEN Out(ErrorResponse("Invalid 'from' public key"), c1, NoIns)
        ELSE IF ~to.ok
        THEN Out(ErrorResponse("Invalid 'to' public key"), c2, NoIns)
        ELSE IF from.key = to.key
        THEN Out(ErrorResponse("Sender and recipient addresses cannot be the same."),
                 c3, NoIns)
        ELSE Out(SuccessResponse(SerializableInstructionFrom(instruction)), c5, instruction)

\* send_sol with the zero-amount check moved ahead of the key checks
send_sol_amount_first(r) ==
    LET from == PubkeyFromStr(r.from)
        to   == PubkeyFromStr(r.to)
        instruction == system_transfer(from.key, to.key, r.lamports)
        c0 == << "lamports == 0" >>
        c1 == c0 \o << "from_str(from)" >>
        c2 == c1 \o << "from_str(to)" >>
        c3 == c2 \o << "from == to" >>
        c5 == c3 \o << "system_instruction::transfer" >>
    IN  IF r.lamports = 0
        THEN Out(ErrorResponse("Cannot send 0 lamports."), c0, NoIns)
        ELSE IF ~from.ok
        THEN Out(ErrorResponse("Invalid 'from' public key"), c1, NoIns)
        ELSE IF ~to.ok
        THEN Out(ErrorResponse("Invalid 'to' public key"), c2, NoIns)
        ELSE IF from.key = to.key
        THEN Out(ErrorResponse("Sender and recipient addresses cannot be the same."),
                 c3, NoIns)
        ELSE Out(SuccessResponse(SerializableInstructionFrom(instruction)), c5, instruction)

send_sol(r) ==
    LET from == PubkeyFromStr(r.from)
        to   == PubkeyFromStr(r.to)
        instruction == system_transfer(from.key, to.key, r.lamports)
        c1 == << "from_str(from)" >>
        c2 == c1 \o << "from_str(to)" >>
        c3 == c2 \o << "from == to" >>
        c4 == c3 \o << "lamports == 0" >>
        c5 == c4 \o << "system_instruction::transfer" >>
    IN  IF ~from.ok
        THEN Out(ErrorResponse("Invalid 'from' public key"), c1, NoIns)
        ELSE IF ~to.ok
        THEN Out(ErrorResponse("Invalid 'to' public key"), c2, NoIns)
        ELSE IF from.key = to.key
        THEN Out(ErrorResponse("Sender and recipient addresses cannot be the same."),
                 c3, NoIns)
        ELSE IF r.lamports = 0
        THEN Out(ErrorResponse("Cannot send 0 lamports."), c4, NoIns)
        ELSE Out(SuccessResponse(SerializableInstructionFrom(instruction)), c5, instruction)

\* send_token deriving the source account from the destination instead of the owner
send_token_source_of_destination(r) ==
    LET destination == PubkeyFromStr(r.destination)
        mint        == PubkeyFromStr(r.mint)
        owner       == PubkeyFromStr(r.owner)
        source_token_account == get_associated_token_address(destination.key, mint.key)
        built == token_transfer(SPL_TOKEN_ID, source_token_account, destination.key,
                                owner.key, r.amount)
        c1 == << "from_str(destination)" >>
        c2 == c1 \o << "from_str(mint)" >>
        c3 == c2 \o << "from_str(owner)" >>
        c4 == c3 \o << "get_associated_token_address", "transfer" >>
    IN  IF ~destination.ok
        THEN Out(ErrorResponse("Invalid destination public key"), c1, NoIns)
        ELSE IF ~mint.ok
        THEN Out(ErrorResponse("Invalid mint public key"), c2, NoIns)
        ELSE IF ~owner.ok
        THEN Out(ErrorResponse("Invalid owner public key"), c3, NoIns)
        ELSE IF built.ok
        THEN Out(SuccessResponse(SerializableInstructionFrom(built.ins)), c4, built.ins)
        ELSE Out(ErrorResponse("Failed to create instruction: IncorrectProgramId"), c4, NoIns)

send_token(r) ==
    LET destination == PubkeyFromStr(r.destination)
        mint        == PubkeyFromStr(r.mint)
        owner       == PubkeyFromStr(r.owner)
        source_token_account == get_associated_token_address(owner.key, mint.key)
        built == token_transfer(SPL_TOKEN_ID, source_token_account, destination.key,
                                owner.key, r.amount)
        c1 == << "from_str(destination)" >>
        c2 == c1 \o << "from_str(mint)" >>
        c3 == c2 \o << "from_str(owner)" >>
        c4 == c3 \o << "get_associated_token_address", "transfer" >>
    IN  IF ~destination.ok
        THEN Out(ErrorResponse("Invalid destination public key"), c1, NoIns)
        ELSE IF ~mint.ok
        THEN Out(ErrorResponse("Invalid mint public key"), c2, NoIns)
        ELSE IF ~owner.ok
        THEN Out(ErrorResponse("Invalid owner public key"), c3, NoIns)
        ELSE IF built.ok
        THEN Out(SuccessResponse(SerializableInstructionFrom(built.ins)), c4, built.ins)
        ELSE Out(ErrorResponse("Failed to create instruction: IncorrectProgramId"), c4, NoIns)

-----------------------------------------------------------------------------
(* The requests a client sends.                                            *)

\* the public key and the secret of the keypair of draw i, as text
KeyText(i)    == PubkeyToString(KeypairNew(i).public)
SecretText(i) == KeypairToBase58String(KeypairNew(i))

\* text that is not base58, base58 of too few bytes, and text too long to be a key
BadCharText == << "0", "O", "I", "l" >>
ShortText   == << "a", "b", "c" >>
LongText    == Repeat("z", MAX_BASE58_LEN + 1)

PubkeyTexts ==
    { KeyText(i) : i \in 1..NumSeeds }
    \cup { PubkeyToString(SYSTEM_PROGRAM_ID), BadCharText, ShortText, LongText }

\* the well-formed keys and one malformed text, for /send/token
FewPubkeyTexts ==
    { KeyText(i) : i \in 1..NumSeeds } \cup { BadCharText }

\* one well-formed key and one malformed text, for /token/mint
TwoPubkeyTexts == { KeyText(1), BadCharText }

Messages ==
    { << >>, << "h", "e", "l", "l", "o" >>, << "h", "e", "l", "l", "O" >> }

\* the secret half of draw 1 followed by a public half that is not its own
MismatchedSecretText ==
    Base58Encode(Seed(1) \o PublicKeyOf(Seed(NumSeeds + 1)))

SecretTexts ==
    { SecretText(i) : i \in 1..NumSeeds }
    \cup { << >>, BadCharText, ShortText, MismatchedSecretText }

\* the signature /message/sign returns for message m under the secret of draw i
SignatureText(i, m) ==
    sign_message([ message |-> m, secret |-> SecretText(i) ]).resp.data.signature

\* signatures of the keypairs, text that is not base64, base64 of five bytes,
\* and base64 of sixty-four bytes no keypair produced
SignatureTexts ==
    { SignatureText(i, m) : i \in 1..NumSeeds, m \in Messages \ { << >> } }
    \cup { << "a", "G", "V", "-" >>,
           << "a", "G", "V", "s", "b", "G", "8", "=" >>,
           Base64Encode(Repeat(0, SIGNATURE_BYTES)) }

Amounts  == { JNumber(0), JNumber(1000) }
Decimals == { JNumber(9), JNumber(255) }

\* values no u64 or u8 field accepts, and a value no String field accepts
NotU64    == { JNumber(-1), JString(<< "5" >>), JAbsent }
NotU8     == { JNumber(256), JNumber(-1), JString(<< "9" >>), JAbsent }
NotString == { JNumber(5), JAbsent }

\* a body without the fields whose value is JAbsent
Present(body) == [ f \in { g \in DOMAIN body : body[g].t # "absent" } |-> body[f] ]

CreateTokenBodies ==
    { [ mintAuthority |-> JString(a), mint |-> JString(m), decimals |-> d ] :
        a \in PubkeyTexts, m \in PubkeyTexts, d \in Decimals }
    \cup { Present([ mintAuthority |-> JString(KeyText(1)), mint |-> JString(KeyText(1)),
                     decimals |-> d ]) : d \in NotU8 }
    \cup { Present([ mintAuthority |-> JString(KeyText(1)), mint |-> m,
                     decimals |-> JNumber(9) ]) : m \in NotString }

MintTokenBodies ==
    { [ mint |-> JString(m), destination |-> JString(d), authority |-> JString(a),
        amount |-> n ] :
        m \in TwoPubkeyTexts, d \in TwoPubkeyTexts, a \in TwoPubkeyTexts, n \in Amounts }
    \cup { Present([ mint |-> JString(KeyText(1)), destination |-> JString(KeyText(1)),
                     authority |-> JString(KeyText(1)), amount |-> n ]) : n \in NotU64 }

SignMessageBodies ==
    { [ message |-> JString(m), secret |-> JString(s) ] : m \in Messages, s \in SecretTexts }
    \cup { Present([ message |-> m, secret |-> JString(SecretText(1)) ]) : m \in NotString }

VerifyMessageBodies ==
    { [ message |-> JString(m), signature |-> JString(s), pubkey |-> JString(k) ] :
        m \in Messages, s \in SignatureTexts, k \in PubkeyTexts }
    \cup { Present([ message |-> JString(<< "h", "e", "l", "l", "o" >>), signature |-> s,
                     pubkey |-> JString(KeyText(1)) ]) : s \in NotString }

SendSolBodies ==
    { [ from |-> JString(f), to |-> JString(t), lamports |-> n ] :
        f \in PubkeyTexts, t \in PubkeyTexts, n \in Amounts }
    \cup { Present([ from |-> JString(KeyText(1)), to |-> JString(KeyText(NumSeeds)),
                     lamports |-> n ]) : n \in NotU64 }

SendTokenBodies ==
    { [ destination |-> JString(d), mint |-> JString(m), owner |-> JString(o),
        amount |-> n ] :
        d \in FewPubkeyTexts, m \in FewPubkeyTexts, o \in FewPubkeyTexts, n \in Amounts }
    \cup { Present([ destination |-> JString(KeyText(1)), mint |-> JString(KeyText(1)),
                     owner |-> JString(KeyText(1)), amount |-> n ]) : n \in NotU64 }

NoBody == << >>

Post(path, bodies) == { [ method |-> "POST", path |-> path, body |-> b ] : b \in bodies }

\* the paths main registers, all for POST
Routes ==
    { << "keypair" >>, << "token", "create" >>, << "token", "mint" >>,
      << "message", "sign" >>, << "message", "verify" >>,
      << "send", "sol" >>, << "send", "token" >> }

\* the balance queries of the interface table: a well-formed key and a malformed one
BalanceRequests ==
    { [ method |-> "GET", path |-> << "balance", k >>, body |-> NoBody ] :
        k \in { "11111111111111111111111111111111", "not-a-key" } }

Requests ==
    Post(<< "keypair" >>, { NoBody })
    \cup Post(<< "token", "create" >>, CreateTokenBodies)
    \cup Post(<< "token", "mint" >>, MintTokenBodies)
    \cup Post(<< "message", "sign" >>, SignMessageBodies)
    \cup Post(<< "message", "verify" >>, VerifyMessageBodies)
    \cup Post(<< "send", "sol" >>, SendSolBodies)
    \cup Post(<< "send", "token" >>, SendTokenBodies)
    \cup BalanceRequests
    \cup { [ method |-> "GET", path |-> p, body |-> NoBody ] :
             p \in { << "keypair" >>, << "send", "sol" >> } }
    \cup { [ method |-> "POST", path |-> << "token" >>, body |-> NoBody ] }

NoReq == [ method |-> "", path |-> << >>, body |-> NoBody ]

-----------------------------------------------------------------------------
(* The server.                                                             *)

VARIABLES
    pc,      \* "idle", "accepted" (a request is routed), "done" (it is answered)
    req,     \* the request in hand
    resp,    \* the response to it
    calls,   \* the checks and SDK calls its handler made, in order
    ins,     \* the instruction the SDK built for it
    runs,    \* how many times the request in hand has been submitted
    prev     \* the response its previous submission got

vars == << pc, req, resp, calls, ins, runs, prev >>

\* the handlers keep nothing: before a request there is no state at all
Init ==
    /\ pc = "idle"
    /\ req = NoReq
    /\ resp = NoResp
    /\ calls = << >>
    /\ ins = NoIns
    /\ runs = 0
    /\ prev = NoResp

\* a client's request reaches the router
Accept ==
    /\ pc = "idle"
    /\ \E r \in Requests : req' = r
    /\ pc' = "accepted"
    /\ runs' = 1
    /\ UNCHANGED << resp, calls, ins, prev >>

Routed(method, path) ==
    /\ pc = "accepted"
    /\ req.method = method
    /\ req.path = path

Answer(out) ==
    /\ resp' = out.resp
    /\ calls' = out.calls
    /\ ins' = out.ins
    /\ pc' = "done"
    /\ UNCHANGED << req, runs, prev >>

\* Json(req): Json<T> followed by the handler: the handler is entered only
\* with a body that deserializes
Extracted(fields, handled) ==
    IF DeserializeOk(req.body, fields)
    THEN handled
    ELSE Out(JsonRejection, << >>, NoIns)

\* .route("/keypair", post(generate_keypair))
PostKeypair ==
    /\ Routed("POST", << "keypair" >>)
    /\ \E i \in 1..NumSeeds : Answer(generate_keypair(i))

\* .route("/create", post(create_token)) under /token
PostTokenCreate ==
    /\ Routed("POST", << "token", "create" >>)
    /\ Answer(Extracted(CreateTokenRequestFields, create_token(CreateTokenRequest(req.body))))

\* .route("/mint", post(mint_token)) under /token
PostTokenMint ==
    /\ Routed("POST", << "token", "mint" >>)
    /\ Answer(Extracted(MintTokenRequestFields, mint_token(MintTokenRequest(req.body))))

\* .route("/sign", post(sign_message)) under /message
PostMessageSign ==
    /\ Routed("POST", << "message", "sign" >>)
    /\ Answer(Extracted(SignMessageRequestFields, sign_message(SignMessageRequest(req.body))))

\* .route("/verify", post(verify_message)) under /message
PostMessageVerify ==
    /\ Routed("POST", << "message", "verify" >>)
    /\ Answer(Extracted(VerifyMessageRequestFields,
                        verify_message(VerifyMessageRequest(req.body))))

\* /send/sol answering a request it has already answered as a duplicate: a
\* handler that remembers the requests it has seen
PostSendSol_remembering ==
    /\ Routed("POST", << "send", "sol" >>)
    /\ IF prev = NoResp
       THEN Answer(Extracted(SendSolRequestFields, send_sol(SendSolRequest(req.body))))
       ELSE Answer(Out(ErrorResponse("Duplicate request"), << >>, NoIns))

\* .route("/sol", post(send_sol)) under /send
PostSendSol ==
    /\ Routed("POST", << "send", "sol" >>)
    /\ Answer(Extracted(SendSolRequestFields, send_sol(SendSolRequest(req.body))))

\* .route("/token", post(send_token)) under /send
PostSendToken ==
    /\ Routed("POST", << "send", "token" >>)
    /\ Answer(Extracted(SendTokenRequestFields, send_token(SendTokenRequest(req.body))))

\* a registered path asked with another method than POST
MethodNotAllowed ==
    /\ pc = "accepted"
    /\ req.path \in Routes
    /\ req.method # "POST"
    /\ Answer(Out(MethodNotAllowedResponse, << >>, NoIns))

\* a path main registers no route for
NotFound ==
    /\ pc = "accepted"
    /\ req.path \notin Routes
    /\ Answer(Out(NotFoundResponse, << >>, NoIns))

\* the client submits the same request once more
Resubmit ==
    /\ pc = "done"
    /\ runs < MaxRuns
    /\ pc' = "accepted"
    /\ runs' = runs + 1
    /\ prev' = resp
    /\ resp' = NoResp
    /\ calls' = << >>
    /\ ins' = NoIns
    /\ UNCHANGED req

\* the response is sent and the request is over: nothing of it is kept
Close ==
    /\ pc = "done"
    /\ pc' = "idle"
    /\ req' = NoReq
    /\ resp' = NoResp
    /\ calls' = << >>
    /\ ins' = NoIns
    /\ runs' = 0
    /\ prev' = NoResp

Next ==
    \/ Accept
    \/ PostKeypair
    \/ PostTokenCreate
    \/ PostTokenMint
    \/ PostMessageSign
    \/ PostMessageVerify
    \/ PostSendSol
    \/ PostSendToken
    \/ MethodNotAllowed
    \/ NotFound
    \/ Resubmit
    \/ Close

Spec == Init /\ [][Next]_vars

-----------------------------------------------------------------------------
(* What the claims speak of.                                               *)

\* the request in hand has been answered by the handler of this POST route
\* (its body deserialized, so the handler was entered)
Handled(path, fields) ==
    /\ pc = "done"
    /\ req.method = "POST"
    /\ req.path = path
    /\ DeserializeOk(req.body, fields)

\* a rejection: a client-error status with the body {success: false, error}
IsErrorResponse(r) ==
    /\ r.status >= 400 /\ r.status <= 499
    /\ r.ctype = "json"
    /\ ~r.success
    /\ r.error # ""
    /\ r.data = NoData

IsSuccess(r) == r.status = 200 /\ r.ctype = "json" /\ r.success

Builders == { "initialize_mint", "mint_to", "system_instruction::transfer", "transfer" }

BuilderCalls == { i \in 1..Len(calls) : calls[i] \in Builders }

Check(c, bad, msg) == [ c |-> c, bad |-> bad, msg |-> msg ]

\* index of the first failing check of a list, 0 when none fails
FirstBad(checks) ==
    IF \E i \in 1..Len(checks) : checks[i].bad
    THEN CHOOSE i \in 1..Len(checks) :
            checks[i].bad /\ \A j \in 1..(i - 1) : ~checks[j].bad
    ELSE 0

\* the response and the trace are those of stopping at the first failing check
StopsAtFirst(checks) ==
    LET k == FirstBad(checks)
    IN  IF k > 0
        THEN /\ resp = ErrorResponse(checks[k].msg)
             /\ calls = [ i \in 1..k |-> checks[i].c ]
             /\ BuilderCalls = {}
             /\ ins = NoIns
        ELSE /\ SubSeq(calls, 1, Len(checks)) = [ i \in 1..Len(checks) |-> checks[i].c ]
             /\ calls[Len(calls)] \in Builders

Bad(text) == ~PubkeyFromStr(text).ok

-----------------------------------------------------------------------------
(* C1: a /send/sol request whose 'from' and 'to' both decode to public     *)
(* keys is rejected with an error response when lamports is 0, whatever    *)
(* the addresses, and when from equals to, whatever the amount; a transfer *)
(* instruction is built exactly when from differs from to and lamports is  *)
(* above 0.                                                                *)
C1_SendSolRejectsZeroAndSelf ==
    Handled(<< "send", "sol" >>, SendSolRequestFields) =>
        LET r    == SendSolRequest(req.body)
            from == PubkeyFromStr(r.from)
            to   == PubkeyFromStr(r.to)
        IN  (from.ok /\ to.ok) =>
                /\ r.lamports = 0 => IsErrorResponse(resp) /\ ins = NoIns
                /\ from.key = to.key => IsErrorResponse(resp) /\ ins = NoIns
                /\ (ins # NoIns) <=> (from.key # to.key /\ r.lamports > 0)
                /\ IsSuccess(resp) <=> (ins # NoIns)
                /\ (ins # NoIns) =>
                      /\ "system_instruction::transfer" \in Range(calls)
                      /\ ins.accounts[1].pubkey = from.key
                      /\ ins.accounts[2].pubkey = to.key

\* two different well-formed addresses and 0 lamports have been rejected
C1_Witness ==
    /\ Handled(<< "send", "sol" >>, SendSolRequestFields)
    /\ LET r == SendSolRequest(req.body)
       IN  /\ PubkeyFromStr(r.from).ok
           /\ PubkeyFromStr(r.to).ok
           /\ r.from # r.to
           /\ r.lamports = 0
    /\ resp = ErrorResponse("Cannot send 0 lamports.")

-----------------------------------------------------------------------------
(* C2: in create_token, mint_token, send_sol and send_token the checks run *)
(* in a fixed order; the first one that fails ends the request with its    *)
(* own error, no later check runs and the SDK builder is not called; when  *)
(* several fields are invalid at once the error is that of the earliest    *)
(* check.                                                                  *)
CreateTokenChecks(r) ==
    << Check("from_str(mint_authority)", Bad(r.mint_authority),
             "Invalid mint authority public key"),
       Check("from_str(mint)", Bad(r.mint), "Invalid mint public key") >>

MintTokenChecks(r) ==
    << Check("from_str(mint)", Bad(r.mint), "Invalid mint public key"),
       Check("from_str(destination)", Bad(r.destination), "Invalid destination public key"),
       Check("from_str(authority)", Bad(r.authority), "Invalid authority public key") >>

SendSolChecks(r) ==
    << Check("from_str(from)", Bad(r.from), "Invalid 'from' public key"),
       Check("from_str(to)", Bad(r.to), "Invalid 'to' public key"),
       Check("from == to", PubkeyFromStr(r.from).key = PubkeyFromStr(r.to).key,
             "Sender and recipient addresses cannot be the same."),
       Check("lamports == 0", r.lamports = 0, "Cannot send 0 lamports.") >>

SendTokenChecks(r) ==
    << Check("from_str(destination)", Bad(r.destination), "Invalid destination public key"),
       Check("from_str(mint)", Bad(r.mint), "Invalid mint public key"),
       Check("from_str(owner)", Bad(r.owner), "Invalid owner public key") >>

C2_ValidationShortCircuits ==
    /\ Handled(<< "token", "create" >>, CreateTokenRequestFields) =>
           StopsAtFirst(CreateTokenChecks(CreateTokenRequest(req.body)))
    /\ Handled(<< "token", "mint" >>, MintTokenRequestFields) =>
           StopsAtFirst(MintTokenChecks(MintTokenRequest(req.body)))
    /\ Handled(<< "send", "sol" >>, SendSolRequestFields) =>
           StopsAtFirst(SendSolChecks(SendSolRequest(req.body)))
    /\ Handled(<< "send", "token" >>, SendTokenRequestFields) =>
           StopsAtFirst(SendTokenChecks(SendTokenRequest(req.body)))

\* a /send/sol request failing three checks at once (a malformed 'to', which
\* leaves no two different keys, and 0 lamports) got the error of the earliest
C2_Witness ==
    /\ Handled(<< "send", "sol" >>, SendSolRequestFields)
    /\ LET r == SendSolRequest(req.body)
       IN  /\ ~Bad(r.from)
           /\ Bad(r.to)
           /\ r.lamports = 0
    /\ resp = ErrorResponse("Invalid 'to' public key")
    /\ calls = << "from_str(from)", "from_str(to)" >>

-----------------------------------------------------------------------------
(* C3: every validation failure on every endpoint but the balance one is   *)
(* answered with a client-error status and the body {success: false,       *)
(* error}; this covers malformed keys, bad base58 or base64, wrong         *)
(* lengths, a zero amount, equal sender and recipient, and bodies whose    *)
(* numeric fields are not of their strict type or whose fields are         *)
(* missing.                                                                *)
C3_ValidationFailuresAreStructured ==
    (pc = "done" /\ req.method = "POST" /\ req.path \in Routes /\ ~IsSuccess(resp))
        => IsErrorResponse(resp)

-----------------------------------------------------------------------------
(* C4: the JSON form of an instruction has as many accounts as the         *)
(* instruction, account i carrying the key and the two flags of account i  *)
(* of the instruction, nothing reordered, deduplicated or sorted; the      *)
(* program id and the payload are those of the instruction.                *)
C4_SerializationPreservesAccounts ==
    (pc = "done" /\ ins # NoIns) =>
        /\ IsSuccess(resp)
        /\ Len(resp.data.accounts) = Len(ins.accounts)
        /\ \A i \in 1..Len(ins.accounts) :
              /\ PubkeyFromStr(resp.data.accounts[i].pubkey).ok
              /\ PubkeyFromStr(resp.data.accounts[i].pubkey).key = ins.accounts[i].pubkey
              /\ resp.data.accounts[i].is_signer = ins.accounts[i].is_signer
              /\ resp.data.accounts[i].is_writable = ins.accounts[i].is_writable
        /\ PubkeyFromStr(resp.data.program_id).ok
        /\ PubkeyFromStr(resp.data.program_id).key = ins.program_id
        /\ Base64Decode(resp.data.instruction_data) = [ ok |-> TRUE, bytes |-> ins.data ]

\* an instruction naming one key three times has been converted, all three kept
C4_Witness ==
    /\ pc = "done"
    /\ ins # NoIns
    /\ Len(ins.accounts) = 3
    /\ ins.accounts[1].pubkey = ins.accounts[2].pubkey
    /\ ins.accounts[2].pubkey = ins.accounts[3].pubkey
    /\ Len(resp.data.accounts) = 3

-----------------------------------------------------------------------------
(* C5: /message/verify answers a signature that does not match with a      *)
(* success whose valid is false; it answers with an error exactly when the *)
(* key does not decode, the signature is not base64, or the decoded        *)
(* signature has the wrong length: three different errors, looked for in   *)
(* that order; every well-formed input gets a success with a boolean valid *)
(* and the request's message and pubkey unchanged.                         *)
C5_VerifyErrorsOnlyOnMalformedInput ==
    Handled(<< "message", "verify" >>, VerifyMessageRequestFields) =>
        LET r       == VerifyMessageRequest(req.body)
            key     == PubkeyFromStr(r.pubkey)
            decoded == Base64Decode(r.signature)
            badKey  == ~key.ok
            badText == ~decoded.ok
            badLen  == Len(decoded.bytes) # SIGNATURE_BYTES
        IN  /\ IsSuccess(resp) <=> ~(badKey \/ badText \/ badLen)
            /\ IsSuccess(resp) \/ IsErrorResponse(resp)
            /\ badKey => resp = ErrorResponse("Invalid public key")
            /\ (~badKey /\ badText) =>
                   resp = ErrorResponse("Invalid signature format; must be base64")
            /\ (~badKey /\ ~badText /\ badLen) =>
                   resp = ErrorResponse("Invalid signature length")
            /\ IsSuccess(resp) =>
                   /\ resp.data.valid \in BOOLEAN
                   /\ resp.data.valid
                        = Ed25519Verify(decoded.bytes, key.key, as_bytes(r.message))
                   /\ resp.data.message = r.message
                   /\ resp.data.pubkey = r.pubkey

\* a well-formed signature that does not match has been answered valid = false
C5_Witness ==
    /\ Handled(<< "message", "verify" >>, VerifyMessageRequestFields)
    /\ Len(Base64Decode(VerifyMessageRequest(req.body).signature).bytes) = SIGNATURE_BYTES
    /\ IsSuccess(resp)
    /\ ~resp.data.valid

-----------------------------------------------------------------------------
(* C6: /message/sign rejects an empty message or an empty secret before    *)
(* the secret is decoded; with both non-empty, a secret that is not base58 *)
(* fails with one error and a base58 secret whose bytes are no keypair     *)
(* with another; none of the three failures produces a signature; a        *)
(* success carries the signature, the public key of the decoded keypair    *)
(* and the message unchanged.                                              *)
C6_SignRejectsBeforeDecoding ==
    Handled(<< "message", "sign" >>, SignMessageRequestFields) =>
        LET r       == SignMessageRequest(req.body)
            empty   == r.message = << >> \/ r.secret = << >>
            decoded == Base58Decode(r.secret)
            isPair  == KeypairTryFrom(decoded.bytes).ok
            public  == SubSeq(decoded.bytes, PUBKEY_BYTES + 1, KEYPAIR_LENGTH)
        IN  /\ empty =>
                /\ resp = ErrorResponse("Missing required fields")
                /\ "bs58::decode" \notin Range(calls)
                /\ "Keypair::try_from" \notin Range(calls)
            /\ (~empty /\ ~decoded.ok) => resp = ErrorResponse("Invalid secret key format")
            /\ (~empty /\ decoded.ok /\ ~isPair) => resp = ErrorResponse("Invalid secret key")
            /\ IsSuccess(resp) <=> (~empty /\ decoded.ok /\ isPair)
            /\ ~IsSuccess(resp) =>
                /\ IsErrorResponse(resp)
                /\ "sign_message" \notin Range(calls)
            /\ IsSuccess(resp) =>
                /\ "sign_message" \in Range(calls)
                /\ resp.data.message = r.message
                /\ PubkeyFromStr(resp.data.public_key).key = public
                /\ LET s == Base64Decode(resp.data.signature)
                   IN  /\ s.ok
                       /\ Len(s.bytes) = SIGNATURE_BYTES
                       /\ Ed25519Verify(s.bytes, public, as_bytes(r.message))

\* a base58 secret whose bytes are no keypair has been rejected, unsigned
C6_Witness ==
    /\ Handled(<< "message", "sign" >>, SignMessageRequestFields)
    /\ SignMessageRequest(req.body).message # << >>
    /\ Base58Decode(SignMessageRequest(req.body).secret).ok
    /\ SignMessageRequest(req.body).secret # << >>
    /\ resp = ErrorResponse("Invalid secret key")
    /\ calls = << "is_empty", "bs58::decode", "Keypair::try_from" >>

-----------------------------------------------------------------------------
\* what /message/sign answers for each non-empty message under each valid secret
SignedResponses ==
    { sign_message([ message |-> m, secret |-> SecretText(i) ]).resp :
        i \in 1..NumSeeds, m \in Messages \ { << >> } }

(* C7: for every non-empty message and every valid keypair secret, what    *)
(* /message/sign returns, submitted to /message/verify, gives a success    *)
(* with valid = true; the same signature with another public key, or with  *)
(* a message that differs, gives a success with valid = false and never    *)
(* an error.                                                               *)
C7_SignThenVerify ==
    /\ \A signed \in SignedResponses : IsSuccess(signed)
    /\ Handled(<< "message", "verify" >>, VerifyMessageRequestFields) =>
        LET r == VerifyMessageRequest(req.body)
        IN  \A signed \in SignedResponses :
                r.signature = signed.data.signature =>
                    /\ (r.pubkey = signed.data.public_key
                           /\ r.message = signed.data.message)
                         => (IsSuccess(resp) /\ resp.data.valid)
                    /\ (PubkeyFromStr(r.pubkey).ok
                           /\ (r.pubkey # signed.data.public_key
                                 \/ r.message # signed.data.message))
                         => (IsSuccess(resp) /\ ~resp.data.valid)

\* the very answer of /message/sign has been verified and found valid
C7_Witness ==
    /\ Handled(<< "message", "verify" >>, VerifyMessageRequestFields)
    /\ \E signed \in SignedResponses :
          LET r == VerifyMessageRequest(req.body)
          IN  /\ r.signature = signed.data.signature
              /\ r.pubkey = signed.data.public_key
              /\ r.message = signed.data.message
    /\ IsSuccess(resp)
    /\ resp.data.valid

-----------------------------------------------------------------------------
(* C8: the service answers GET /balance/{pubkey}; for a malformed key, and *)
(* for a failed lookup, the answer is a normal (200-style) payload with    *)
(* success = false and a zero balance, never a transport-level error       *)
(* status.                                                                 *)
C8_BalanceAnsweredInBand ==
    (pc = "done" /\ req.method = "GET" /\ Len(req.path) = 2 /\ req.path[1] = "balance")
        => (resp.status = 200 /\ resp.ctype = "json")

-----------------------------------------------------------------------------
(* C9: in /send/token the source account is not taken from the request: a *)
(* success lists the associated token address of (owner, mint), then the   *)
(* destination, then the owner; the source is the same for every           *)
(* destination and amount sent with the same owner and mint, and a         *)
(* repeated request gets the identical instruction.                        *)
C9_SourceDerivedFromOwnerAndMint ==
    (Handled(<< "send", "token" >>, SendTokenRequestFields) /\ IsSuccess(resp)) =>
        LET r      == SendTokenRequest(req.body)
            owner  == PubkeyFromStr(r.owner).key
            mint   == PubkeyFromStr(r.mint).key
            source == get_associated_token_address(owner, mint)
        IN  /\ Len(resp.data.accounts) = 3
            /\ PubkeyFromStr(resp.data.accounts[1].pubkey).key = source
            /\ PubkeyFromStr(resp.data.accounts[2].pubkey).key
                 = PubkeyFromStr(r.destination).key
            /\ PubkeyFromStr(resp.data.accounts[3].pubkey).key = owner
            /\ \A d \in { KeyText(1), KeyText(NumSeeds) }, n \in Amounts :
                  LET other == send_token([ r EXCEPT !.destination = d, !.amount = n.n ]).resp
                  IN  /\ IsSuccess(other)
                      /\ other.data.accounts[1] = resp.data.accounts[1]
            /\ runs > 1 => resp = prev

\* a /send/token request has succeeded a second time
C9_Witness ==
    /\ Handled(<< "send", "token" >>, SendTokenRequestFields)
    /\ IsSuccess(resp)
    /\ runs > 1
    /\ SendTokenRequest(req.body).destination # SendTokenRequest(req.body).owner

-----------------------------------------------------------------------------
(* C10: every handler is a pure function of its request: two runs of the   *)
(* same request give the same response whatever was handled before, and a  *)
(* request makes at most one call of an instruction builder, none          *)
(* repeated.                                                               *)

=============================================================================
